---- MODULE Spec2Model ----
(***************************************************************************)
(* The real-time collaboration gateway (websocket/server.ts): connection   *)
(* lifecycle, the clients map (Connection Registry), the fanout pipeline,  *)
(* the heartbeat sweep and the Redis pub/sub bridge, for two server        *)
(* processes sharing one Redis bus, one Session collection and one         *)
(* ActivityLog collection.                                                 *)
(*                                                                         *)
(* Every async handler is cut at its awaits: one action per synchronous    *)
(* segment.  An awaited call to an external collaborator (Postgres, Mongo, *)
(* Redis) resolves or rejects; rejections are drawn from a fault budget.   *)
(***************************************************************************)
EXTENDS Integers, Sequences, FiniteSets, Bags, TLC

\* ------------------------------------------------------------------ bounds
NumConns == 2
MaxMsgs == 1
MaxFaults == 1
MaxBurst == 2
MaxPending == 1

\* --------------------------------------------------------------- universe
Procs == {"A", "B"}
Users == {"X", "Y"}
Projects == {"P", "Q"}
Conns == 1..NumConns

\* the handshake's query parameters: url.searchParams.get() yields null when
\* the parameter is absent; a token is either a signed token of a user or not
NoParam == "null"
Tokens == Users \cup {"bad", NoParam}
ReqProjects == Projects \cup {NoParam}

\* project_members rows: X is a member of P and Q, Y of P only
Members == {<<"P", "X">>, <<"Q", "X">>, <<"P", "Y">>}

USER_JOINED == "user_joined"
USER_LEFT == "user_left"
FILE_CHANGED == "file_changed"
CURSOR_MOVED == "cursor_moved"
ACTIVITY_UPDATE == "activity_update"
EventType == {USER_JOINED, USER_LEFT, FILE_CHANGED, CURSOR_MOVED, ACTIVITY_UPDATE}

\* what a client can put in the "type" field of a message: an enumerated
\* kind, some other string, or nothing (undefined); or the text is not JSON
NoType == "undefined"
Malformed == "not-json"
MsgTypes == {FILE_CHANGED, CURSOR_MOVED, ACTIVITY_UPDATE, USER_JOINED, "bogus", NoType}

PolicyViolation == 1008
InternalError == 1011

VARIABLES
  rs,          \* ws.readyState of each socket: NONE before the handshake
  pc,          \* position of the 'connection' handler of each socket
  host,        \* the process that accepted the socket
  token,       \* url.searchParams.get('token')
  reqProject,  \* url.searchParams.get('projectId')
  userId,      \* ws.userId
  projectId,   \* ws.projectId
  sessionId,   \* ws.sessionId (0: unset)
  isAlive,     \* ws.isAlive: "undefined", "true" or "false"
  handlers,    \* the 'message', 'pong' and 'close' listeners are registered
  pinged,      \* a ping is on its way to the peer and not yet answered
  terminated,  \* the heartbeat called terminate() on the socket
  closeCode,   \* code of the first ws.close() of the server (0: none)
  closeReason,
  dpc,         \* position of handleDisconnect for each socket
  clients,     \* per process: Map<projectId, Set<WebSocketClient>>
  sessions,    \* the Session collection
  activityLog, \* the ActivityLog collection
  inbox,       \* per process: pmessages delivered by Redis, not yet handled
  outbox,      \* per socket: the set of the texts ws.send() wrote to it
  tasks,       \* the 'message' handler invocations, in order of receipt
  published,   \* bag of the messages Redis accepted from publish()
  faults,      \* rejections injected so far
  up,          \* the server processes that are running
  life,        \* per process: the phase of App.close and the heartbeat timer
  env          \* what the outside world does in this run (never changes)

vars == <<rs, pc, host, token, reqProject, userId, projectId, sessionId, isAlive,
          handlers, pinged, terminated, closeCode, closeReason, dpc, clients,
          sessions, activityLog, inbox, outbox, tasks, published, faults, up, life,
          env>>

connVars == <<rs, pc, host, token, reqProject, userId, projectId, sessionId, isAlive,
              handlers, pinged, terminated, closeCode, closeReason, dpc>>

\* ---------------------------------------------------------------- helpers

\* authService.verifyAccessToken: the payload of a valid token, or a throw
VerifyAccessToken(t) ==
  IF t \in Users THEN [ok |-> TRUE, userId |-> t] ELSE [ok |-> FALSE, userId |-> NoParam]

\* projectService.getUserRole: the member row's role, or null
GetUserRole(p, u) == IF <<p, u>> \in Members THEN "viewer" ELSE "null"

MissingParams_TokenOnly(t, p) == t = NoParam

\* line 48: a handshake parameter is absent
MissingParams(t, p) == t = NoParam \/ p = NoParam

AccessDenied_Never(role) == FALSE

\* line 59: the user has no role in the project
AccessDenied(role) == role = "null"

\* CollaborationEvent (the timestamp is not modelled)
Event(type, p, u, payload) ==
  [type |-> type, projectId |-> p, userId |-> u, payload |-> payload]

\* JSON.stringify(event) and JSON.parse(message): the wire form is the list of
\* the fields' values; a text that is not such a list does not parse
Stringify(e) == <<e.type, e.projectId, e.userId, e.payload>>
CanParse(m) == Len(m) = 4
Parse(m) == [type |-> m[1], projectId |-> m[2], userId |-> m[3], payload |-> m[4]]

\* `collaboration:${projectId}` and channel.split(':')[1]
Channel(p) == <<"collaboration", p>>
ChannelProject_First(ch) == ch[1]
ChannelProject(ch) == ch[2]

\* ws.close(code, reason): starts the closing handshake of an open socket
CloseRs(c) == IF rs[c] = "OPEN" THEN [rs EXCEPT ![c] = "CLOSING"] ELSE rs
CloseCode(c, code) ==
  IF rs[c] = "OPEN" /\ closeCode[c] = 0 THEN [closeCode EXCEPT ![c] = code] ELSE closeCode
CloseReason(c, reason) ==
  IF rs[c] = "OPEN" /\ closeCode[c] = 0 THEN [closeReason EXCEPT ![c] = reason]
  ELSE closeReason

\* new Map()
EmptyMap == [q \in {} |-> {}]

\* this.clients.get(projectId) of a process, as a set (empty when absent)
Room(cl, p) == IF p \in DOMAIN cl THEN cl[p] ELSE {}

\* lines 71-74: create the Set when absent, then add
AddClient(cl, p, c) ==
  [q \in (DOMAIN cl) \cup {p} |-> IF q = p THEN Room(cl, p) \cup {c} ELSE cl[q]]

RemoveClient_NoPrune(cl, p, c) ==
  IF p \notin DOMAIN cl THEN cl ELSE [cl EXCEPT ![p] = cl[p] \ {c}]

\* lines 171-177: delete from the Set when present, drop the key when empty
RemoveClient(cl, p, c) ==
  IF p \notin DOMAIN cl THEN cl
  ELSE IF cl[p] \ {c} = {}
       THEN [q \in (DOMAIN cl) \ {p} |-> cl[q]]
       ELSE [cl EXCEPT ![p] = cl[p] \ {c}]

ShouldSend_Always(client, event) == TRUE

ShouldSend_NoJoinException(client, event) ==
  \/ userId[client] # event.userId
  \/ event.type = USER_LEFT

\* line 220: the self-echo rule
ShouldSend(client, event) ==
  \/ userId[client] # event.userId
  \/ event.type = USER_JOINED
  \/ event.type = USER_LEFT

\* broadcastToProject, lines 209-225: the outbox after the fanout
BroadcastToProject(ob, proc, p, event) ==
  [c \in Conns |->
     IF /\ c \in Room(clients[proc], p)
        /\ rs[c] = "OPEN"
        /\ ShouldSend(c, event)
     THEN ob[c] \cup {Stringify(event)}
     ELSE ob[c]]

\* redisClient.publish: Redis hands the message to every subscribed process,
\* the publisher's own subscriber connection included
Publish(inb, ch, message) ==
  [q \in Procs |-> IF q \notin up THEN inb[q]
                   ELSE Append(inb[q], [channel |-> ch, message |-> message])]

\* an awaited call to Postgres, Mongo or Redis rejects
CanFail == env.faulty /\ faults < MaxFaults

\* ------------------------------------------------------------------- Init
InitWith(e, procs) ==
  /\ env = e
  /\ up = procs
  /\ life = [q \in Procs |-> [phase |-> "run", timer |-> TRUE]]
  /\ rs = [c \in Conns |-> "NONE"]
  /\ pc = [c \in Conns |-> "idle"]
  /\ host = [c \in Conns |-> "A"]
  /\ token = [c \in Conns |-> NoParam]
  /\ reqProject = [c \in Conns |-> NoParam]
  /\ userId = [c \in Conns |-> NoParam]
  /\ projectId = [c \in Conns |-> NoParam]
  /\ sessionId = [c \in Conns |-> 0]
  /\ isAlive = [c \in Conns |-> "undefined"]
  /\ handlers = [c \in Conns |-> FALSE]
  /\ pinged = [c \in Conns |-> FALSE]
  /\ terminated = [c \in Conns |-> FALSE]
  /\ closeCode = [c \in Conns |-> 0]
  /\ closeReason = [c \in Conns |-> ""]
  /\ dpc = [c \in Conns |-> "none"]
  /\ clients = [q \in Procs |-> EmptyMap]
  /\ sessions = << >>
  /\ activityLog = << >>
  /\ inbox = [q \in Procs |-> << >>]
  /\ outbox = [c \in Conns |-> {}]
  /\ tasks = << >>
  /\ published = EmptyBag
  /\ faults = 0

\* ------------------------------------------- the 'connection' handler, 41-129

\* lines 44-58: the handshake up to the call of getUserRole
Connection(c, proc, t, p) ==
  /\ pc[c] = "idle"
  /\ \A d \in Conns : d < c => pc[d] # "idle"
  /\ proc \in up
  /\ life[proc].phase = "run"
  /\ <<t, p>> \in env.requests
  /\ host' = [host EXCEPT ![c] = proc]
  /\ token' = [token EXCEPT ![c] = t]
  /\ reqProject' = [reqProject EXCEPT ![c] = p]
  /\ IF MissingParams(t, p)
     THEN /\ rs' = [rs EXCEPT ![c] = "CLOSING"]
          /\ closeCode' = [closeCode EXCEPT ![c] = PolicyViolation]
          /\ closeReason' = [closeReason EXCEPT ![c] = "Missing token or projectId"]
          /\ pc' = [pc EXCEPT ![c] = "done"]
     ELSE IF ~VerifyAccessToken(t).ok
     THEN /\ rs' = [rs EXCEPT ![c] = "CLOSING"]
          /\ closeCode' = [closeCode EXCEPT ![c] = InternalError]
          /\ closeReason' = [closeReason EXCEPT ![c] = "Internal server error"]
          /\ pc' = [pc EXCEPT ![c] = "done"]
     ELSE /\ rs' = [rs EXCEPT ![c] = "OPEN"]
          /\ pc' = [pc EXCEPT ![c] = "role"]
          /\ UNCHANGED <<closeCode, closeReason>>
  /\ UNCHANGED <<userId, projectId, sessionId, isAlive, handlers, pinged, terminated,
                 dpc, clients, sessions, activityLog, inbox, outbox, tasks, published,
                 faults, up, life, env>>

\* the catch block, lines 125-128
CatchConnection(c) ==
  /\ rs' = CloseRs(c)
  /\ closeCode' = CloseCode(c, InternalError)
  /\ closeReason' = CloseReason(c, "Internal server error")
  /\ pc' = [pc EXCEPT ![c] = "done"]
  /\ faults' = faults + 1

\* lines 58-77: getUserRole settles; the socket is set up, added to the map,
\* and Session.create is called
RoleResolved(c, ok) ==
  LET u == VerifyAccessToken(token[c]).userId
      p == reqProject[c]
  IN
  /\ pc[c] = "role"
  /\ host[c] \in up
  /\ IF ~ok
     THEN /\ CanFail
          /\ CatchConnection(c)
          /\ UNCHANGED <<userId, projectId, sessionId, isAlive, clients>>
     ELSE IF AccessDenied(GetUserRole(p, u))
     THEN /\ rs' = CloseRs(c)
          /\ closeCode' = CloseCode(c, PolicyViolation)
          /\ closeReason' = CloseReason(c, "Access denied")
          /\ pc' = [pc EXCEPT ![c] = "done"]
          /\ UNCHANGED <<userId, projectId, sessionId, isAlive, clients, faults>>
     ELSE /\ userId' = [userId EXCEPT ![c] = u]
          /\ projectId' = [projectId EXCEPT ![c] = p]
          /\ sessionId' = [sessionId EXCEPT ![c] = c]
          /\ isAlive' = [isAlive EXCEPT ![c] = "true"]
          /\ clients' = [clients EXCEPT ![host[c]] = AddClient(@, p, c)]
          /\ pc' = [pc EXCEPT ![c] = "create"]
          /\ UNCHANGED <<rs, closeCode, closeReason, faults>>
  /\ UNCHANGED <<host, token, reqProject, handlers, pinged, terminated, dpc, sessions,
                 activityLog, inbox, outbox, tasks, published, up, life, env>>

\* lines 77-86: Session.create settles; broadcastEvent calls publish (198-203)
SessionCreated(c, ok) ==
  /\ pc[c] = "create"
  /\ host[c] \in up
  /\ IF ~ok
     THEN /\ CanFail
          /\ CatchConnection(c)
          /\ UNCHANGED sessions
     ELSE /\ sessions' = Append(sessions,
                           [sessionId |-> sessionId[c], userId |-> userId[c],
                            projectId |-> projectId[c], isActive |-> TRUE,
                            lastActivity |-> 0])
          /\ pc' = [pc EXCEPT ![c] = "publish"]
          /\ UNCHANGED <<rs, closeCode, closeReason, faults>>
  /\ UNCHANGED <<host, token, reqProject, userId, projectId, sessionId, isAlive,
                 handlers, pinged, terminated, dpc, clients, activityLog, inbox,
                 outbox, tasks, published, up, life, env>>

JoinEvent(c) == Event(USER_JOINED, projectId[c], userId[c], <<"sessionId", sessionId[c]>>)
LeftEvent(c) == Event(USER_LEFT, projectId[c], userId[c], <<"sessionId", sessionId[c]>>)

\* ws.send() writes to an open socket only
Send(ob, c, m) == IF rs[c] = "OPEN" THEN [ob EXCEPT ![c] = @ \cup {m}] ELSE ob

Welcome(c) == <<"connected", sessionId[c], projectId[c]>>
ErrorReply == <<"error", "Invalid message format">>

\* lines 203-124: publish settles; local fanout of user_joined, the listeners
\* are registered and the welcome message is sent
JoinPublished(c, ok) ==
  /\ pc[c] = "publish"
  /\ host[c] \in up
  /\ IF ~ok
     THEN /\ CanFail
          /\ CatchConnection(c)
          /\ UNCHANGED <<handlers, inbox, outbox, published>>
     ELSE /\ published' = published (+) SetToBag({JoinEvent(c)})
          /\ inbox' = Publish(inbox, Channel(projectId[c]), Stringify(JoinEvent(c)))
          /\ outbox' = Send(BroadcastToProject(outbox, host[c], projectId[c], JoinEvent(c)),
                            c, Welcome(c))
          /\ handlers' = [handlers EXCEPT ![c] = TRUE]
          /\ pc' = [pc EXCEPT ![c] = "ready"]
          /\ UNCHANGED <<rs, closeCode, closeReason, faults>>
  /\ UNCHANGED <<host, token, reqProject, userId, projectId, sessionId, isAlive, pinged,
                 terminated, dpc, clients, sessions, activityLog, tasks, up, life, env>>

\* ------------------------------------------------ process exit, lines 447-457

\* unhandledRejection -> process.exit(1): the process's sockets are closed by
\* the operating system without any listener running, its handlers stop, its
\* map and its Redis subscription are gone
Exit(proc) ==
  /\ up' = up \ {proc}
  /\ life' = [life EXCEPT ![proc] = [phase |-> "exited", timer |-> FALSE]]
  /\ UNCHANGED env
  /\ rs' = [c \in Conns |->
              IF host[c] = proc /\ rs[c] \in {"OPEN", "CLOSING"} THEN "CLOSED" ELSE rs[c]]
  /\ pc' = [c \in Conns |->
              IF host[c] = proc /\ pc[c] \in {"role", "create", "publish"}
              THEN "dead" ELSE pc[c]]
  /\ dpc' = [c \in Conns |->
              IF host[c] = proc /\ dpc[c] \in {"update", "publish"}
              THEN "dead" ELSE dpc[c]]
  /\ tasks' = [m \in DOMAIN tasks |->
                 IF host[tasks[m].conn] = proc /\ tasks[m].st \in {"touch", "log", "publish"}
                 THEN [tasks[m] EXCEPT !.st = "dead"] ELSE tasks[m]]
  /\ pinged' = [c \in Conns |-> IF host[c] = proc THEN FALSE ELSE pinged[c]]
  /\ clients' = [clients EXCEPT ![proc] = EmptyMap]
  /\ inbox' = [inbox EXCEPT ![proc] = << >>]

\* ------------------------------------------- the 'close' listener, 112-115

UpdateOne_NoFilter(ss, sid, field, value) ==
  IF ss = << >> THEN ss ELSE [ss EXCEPT ![1] = [@ EXCEPT ![field] = value]]

\* Session.updateOne(filter, update): the first document with the sessionId
UpdateOne(ss, sid, field, value) ==
  LET hits == {i \in DOMAIN ss : ss[i].sessionId = sid}
  IN IF hits = {} THEN ss
     ELSE LET i == CHOOSE j \in hits : \A k \in hits : j <= k
          IN [ss EXCEPT ![i] = [@ EXCEPT ![field] = value]]

\* the socket closes (the peer closed or vanished, the closing handshake or a
\* terminate() completed): 'close' is emitted once; handleDisconnect 168-183
\* runs when the listener is registered, up to the call of Session.updateOne
SocketClose(c) ==
  /\ rs[c] \in {"OPEN", "CLOSING"}
  /\ host[c] \in up
  /\ rs' = [rs EXCEPT ![c] = "CLOSED"]
  /\ pinged' = [pinged EXCEPT ![c] = FALSE]
  /\ IF handlers[c]
     THEN /\ clients' = [clients EXCEPT ![host[c]] = RemoveClient(@, projectId[c], c)]
          /\ dpc' = [dpc EXCEPT ![c] = "update"]
     ELSE UNCHANGED <<clients, dpc>>
  /\ UNCHANGED <<pc, host, token, reqProject, userId, projectId, sessionId, isAlive,
                 handlers, terminated, closeCode, closeReason, sessions, activityLog,
                 inbox, outbox, tasks, published, faults, up, life, env>>

\* lines 180-186: the Session update settles; broadcastEvent calls publish.
\* A rejection leaves the listener's promise rejected with nobody handling it
DisconnectUpdated(c, ok) ==
  /\ dpc[c] = "update"
  /\ host[c] \in up
  /\ IF ~ok
     THEN /\ CanFail
          /\ faults' = faults + 1
          /\ Exit(host[c])
          /\ UNCHANGED sessions
     ELSE /\ sessions' = UpdateOne(sessions, sessionId[c], "isActive", FALSE)
          /\ dpc' = [dpc EXCEPT ![c] = "publish"]
          /\ UNCHANGED <<rs, pc, tasks, pinged, clients, inbox, up, life, env, faults>>
  /\ UNCHANGED <<host, token, reqProject, userId, projectId, sessionId, isAlive,
                 handlers, terminated, closeCode, closeReason, activityLog, outbox,
                 published>>

\* lines 203-194: publish settles; local fanout of user_left
DisconnectPublished(c, ok) ==
  /\ dpc[c] = "publish"
  /\ host[c] \in up
  /\ IF ~ok
     THEN /\ CanFail
          /\ faults' = faults + 1
          /\ Exit(host[c])
          /\ UNCHANGED <<outbox, published>>
     ELSE /\ published' = published (+) SetToBag({LeftEvent(c)})
          /\ inbox' = Publish(inbox, Channel(projectId[c]), Stringify(LeftEvent(c)))
          /\ outbox' = BroadcastToProject(outbox, host[c], projectId[c], LeftEvent(c))
          /\ dpc' = [dpc EXCEPT ![c] = "done"]
          /\ UNCHANGED <<rs, pc, tasks, pinged, clients, up, life, env, faults>>
  /\ UNCHANGED <<host, token, reqProject, userId, projectId, sessionId, isAlive,
                 handlers, terminated, closeCode, closeReason, sessions, activityLog>>

\* ----------------------------------------- the 'message' listener, 97-105

\* the userId and projectId fields a client may put into its message (line
\* 135 reads type and payload only); NoData: the message has no such fields
NoData == [userId |-> NoParam, projectId |-> NoParam]
Datas == {NoData} \cup [userId : Users, projectId : Projects]

TaskEvent_FromData(m) ==
  Event(tasks[m].type,
        IF tasks[m].data = NoData THEN projectId[tasks[m].conn] ELSE tasks[m].data.projectId,
        IF tasks[m].data = NoData THEN userId[tasks[m].conn] ELSE tasks[m].data.userId,
        <<"msg", m>>)

\* the CollaborationEvent of a message, lines 147-153
TaskEvent(m) ==
  Event(tasks[m].type, projectId[tasks[m].conn], userId[tasks[m].conn], <<"msg", m>>)

SetTask(m, st) == [tasks EXCEPT ![m].st = st]

\* lines 99-142: a text arrives on an open socket; JSON.parse, then
\* handleMessage up to the call of Session.updateOne
Message(c, ty) ==
  /\ handlers[c]
  /\ rs[c] = "OPEN"
  /\ host[c] \in up
  /\ Len(tasks) < env.msgs
  /\ ty \in env.msgTypes
  /\ IF ty = Malformed
     THEN /\ tasks' = Append(tasks, [conn |-> c, type |-> ty, st |-> "failed",
                                     data |-> NoData])
          /\ outbox' = Send(outbox, c, ErrorReply)
     ELSE /\ \E data \in env.datas :
               tasks' = Append(tasks, [conn |-> c, type |-> ty, st |-> "touch",
                                       data |-> data])
          /\ UNCHANGED outbox
  /\ UNCHANGED <<connVars, clients, sessions, activityLog, inbox, published, faults,
                 up, life, env>>

\* the catch block of the listener, lines 101-104
CatchMessage(m) ==
  /\ tasks' = SetTask(m, "failed")
  /\ outbox' = Send(outbox, tasks[m].conn, ErrorReply)

\* lines 142-156: the Session touch settles; ActivityLog.create is called
MsgTouched(m, ok) ==
  /\ m \in DOMAIN tasks
  /\ tasks[m].st = "touch"
  /\ IF ~ok
     THEN /\ CanFail
          /\ faults' = faults + 1
          /\ CatchMessage(m)
          /\ UNCHANGED sessions
     ELSE /\ sessions' = UpdateOne(sessions, sessionId[tasks[m].conn], "lastActivity",
                                   sessions[CHOOSE i \in DOMAIN sessions :
                                     sessions[i].sessionId = sessionId[tasks[m].conn]
                                   ].lastActivity + 1)
          /\ tasks' = SetTask(m, "log")
          /\ UNCHANGED <<outbox, faults>>
  /\ UNCHANGED <<connVars, clients, activityLog, inbox, published, up, life, env>>

ValidActivity_Any(e) == TRUE

\* the ActivityLog schema: eventType is required and one of the EventType values
ValidActivity(e) == e.type \in EventType

\* lines 156-165: ActivityLog.create settles (it rejects a document the schema
\* refuses); broadcastEvent calls publish
MsgLogged(m, ok) ==
  /\ m \in DOMAIN tasks
  /\ tasks[m].st = "log"
  /\ IF ~ok
     THEN /\ CanFail
          /\ faults' = faults + 1
          /\ CatchMessage(m)
          /\ UNCHANGED activityLog
     ELSE IF ~ValidActivity(TaskEvent(m))
     THEN /\ CatchMessage(m)
          /\ UNCHANGED <<activityLog, faults>>
     ELSE /\ activityLog' = Append(activityLog, TaskEvent(m))
          /\ tasks' = SetTask(m, "publish")
          /\ UNCHANGED <<outbox, faults>>
  /\ UNCHANGED <<connVars, clients, sessions, inbox, published, up, life, env>>

\* lines 203-206: publish settles; local fanout of the message's event
MsgPublished(m, ok) ==
  /\ m \in DOMAIN tasks
  /\ tasks[m].st = "publish"
  /\ IF ~ok
     THEN /\ CanFail
          /\ faults' = faults + 1
          /\ CatchMessage(m)
          /\ UNCHANGED <<inbox, published>>
     ELSE /\ published' = published (+) SetToBag({TaskEvent(m)})
          /\ inbox' = Publish(inbox, Channel(TaskEvent(m).projectId), Stringify(TaskEvent(m)))
          /\ outbox' = BroadcastToProject(outbox, host[tasks[m].conn],
                                          TaskEvent(m).projectId, TaskEvent(m))
          /\ tasks' = SetTask(m, "done")
          /\ UNCHANGED faults
  /\ UNCHANGED <<connVars, clients, sessions, activityLog, up, life, env>>

\* ------------------------------------- the pmessage listener, lines 251-261
OnPMessage(proc, msg) ==
  IF CanParse(msg.message)
  THEN BroadcastToProject(outbox, proc, ChannelProject(msg.channel), Parse(msg.message))
  ELSE outbox

BusDeliver(proc) ==
  /\ inbox[proc] # << >>
  /\ proc \in up
  /\ outbox' = OnPMessage(proc, Head(inbox[proc]))
  /\ inbox' = [inbox EXCEPT ![proc] = Tail(@)]
  /\ UNCHANGED <<connVars, clients, sessions, activityLog, tasks, published, faults,
                 up, life, env>>

\* ------------------------------------------- the heartbeat, lines 227-239

\* this.wss.clients: the sockets of the process that have not emitted 'close'
WssClients(proc) == {c \in Conns : host[c] = proc /\ rs[c] \in {"OPEN", "CLOSING"}}

Heartbeat_AlsoDisconnect(proc) ==
  LET dead == {c \in WssClients(proc) : isAlive[c] = "false"}
      gone == {c \in dead : handlers[c] /\ dpc[c] = "none"}
  IN
  /\ proc \in up
  /\ env.heartbeat
  /\ life[proc].timer
  /\ WssClients(proc) # {}
  /\ rs' = [c \in Conns |-> IF c \in dead THEN "CLOSING" ELSE rs[c]]
  /\ terminated' = [c \in Conns |-> IF c \in dead THEN TRUE ELSE terminated[c]]
  /\ isAlive' = [c \in Conns |->
              IF c \in WssClients(proc) \ dead THEN "false" ELSE isAlive[c]]
  /\ pinged' = [c \in Conns |->
              IF c \in WssClients(proc) \ dead /\ rs[c] = "OPEN" THEN TRUE ELSE pinged[c]]
  /\ dpc' = [c \in Conns |-> IF c \in gone THEN "update" ELSE dpc[c]]
  /\ clients' = [clients EXCEPT ![proc] =
                   [p \in {q \in DOMAIN @ : @[q] \ gone # {}} |-> @[p] \ gone]]
  /\ UNCHANGED <<pc, host, token, reqProject, userId, projectId, sessionId, handlers,
                 closeCode, closeReason, sessions, activityLog, inbox,
                 outbox, tasks, published, faults, up, life, env>>

Heartbeat(proc) ==
  /\ proc \in up
  /\ env.heartbeat
  /\ life[proc].timer
  /\ WssClients(proc) # {}
  /\ rs' = [c \in Conns |->
              IF c \in WssClients(proc) /\ isAlive[c] = "false" THEN "CLOSING" ELSE rs[c]]
  /\ terminated' = [c \in Conns |->
              IF c \in WssClients(proc) /\ isAlive[c] = "false" THEN TRUE ELSE terminated[c]]
  /\ isAlive' = [c \in Conns |->
              IF c \in WssClients(proc) /\ isAlive[c] # "false" THEN "false" ELSE isAlive[c]]
  /\ pinged' = [c \in Conns |->
              IF c \in WssClients(proc) /\ isAlive[c] # "false" /\ rs[c] = "OPEN"
              THEN TRUE ELSE pinged[c]]
  /\ UNCHANGED <<pc, host, token, reqProject, userId, projectId, sessionId, handlers,
                 closeCode, closeReason, dpc, clients, sessions, activityLog, inbox,
                 outbox, tasks, published, faults, up, life, env>>

\* the peer answers a ping; the 'pong' listener, lines 108-110, when registered
Pong(c) ==
  /\ pinged[c]
  /\ rs[c] = "OPEN"
  /\ host[c] \in up
  /\ pinged' = [pinged EXCEPT ![c] = FALSE]
  /\ isAlive' = IF handlers[c] THEN [isAlive EXCEPT ![c] = "true"] ELSE isAlive
  /\ UNCHANGED <<rs, pc, host, token, reqProject, userId, projectId, sessionId,
                 handlers, terminated, closeCode, closeReason, dpc, clients, sessions,
                 activityLog, inbox, outbox, tasks, published, faults, up, life, env>>

\* ------------------------------ a foreign publisher on the bus, line 249

\* what another client of the same Redis may publish on a collaboration
\* channel: an event of any project and user, or a text that is not JSON
ForeignTexts ==
  {Stringify(Event(FILE_CHANGED, q, u, <<"foreign">>)) : q \in Projects, u \in Users}
    \cup {<<"garbage">>}

\* psubscribe('collaboration:*') hands every message on a matching channel to
\* the pmessage listener, whoever published it
BusInject(p, text) ==
  /\ env.foreign
  /\ \A q \in up : Len(inbox[q]) < MaxPending
  /\ inbox' = Publish(inbox, Channel(p), text)
  /\ UNCHANGED <<connVars, clients, sessions, activityLog, outbox, tasks, published,
                 faults, up, life, env>>

\* ------------------------------------- shutdown: SIGTERM/SIGINT, App.close

\* App.close up to the await of postgresDB.close(): wsServer.close() calls
\* wss.close(), which stops accepting handshakes; the ws library of the build
\* either terminates the sockets it holds (ws 7 and older) or leaves them
\* alone (ws 8); no socket is sent a close frame
Shutdown(proc, legacy) ==
  /\ env.shutdown
  /\ proc \in up
  /\ life[proc].phase = "run"
  /\ life' = [life EXCEPT ![proc].phase = "pg"]
  /\ rs' = IF legacy
           THEN [c \in Conns |-> IF c \in WssClients(proc) THEN "CLOSING" ELSE rs[c]]
           ELSE rs
  /\ UNCHANGED <<pc, host, token, reqProject, userId, projectId, sessionId, isAlive,
                 handlers, pinged, terminated, closeCode, closeReason, dpc, clients,
                 sessions, activityLog, inbox, outbox, tasks, published, faults, up,
                 env>>

\* the 'close' event of wss, lines 241-243: emitted once the listening server
\* has closed and no socket is left; clearInterval
WssClosed(proc) ==
  /\ proc \in up
  /\ life[proc].phase \in {"pg", "redis"}
  /\ life[proc].timer
  /\ WssClients(proc) = {}
  /\ life' = [life EXCEPT ![proc].timer = FALSE]
  /\ UNCHANGED <<connVars, clients, sessions, activityLog, inbox, outbox, tasks,
                 published, faults, up, env>>

\* postgresDB.close() settles; redisClient.close() is called
PgClosed(proc) ==
  /\ proc \in up
  /\ life[proc].phase = "pg"
  /\ life' = [life EXCEPT ![proc].phase = "redis"]
  /\ UNCHANGED <<connVars, clients, sessions, activityLog, inbox, outbox, tasks,
                 published, faults, up, env>>

\* redisClient.close() settles (the three quit() calls: the subscription is
\* gone); App.close returns and the signal handler calls process.exit(0)
RedisClosed(proc) ==
  /\ proc \in up
  /\ life[proc].phase = "redis"
  /\ Exit(proc)
  /\ UNCHANGED <<host, token, reqProject, userId, projectId, sessionId, isAlive,
                 handlers, terminated, closeCode, closeReason, sessions, activityLog,
                 outbox, published, faults>>

\* ------------------------------------------------------------------- Next
AllRequests == Tokens \X ReqProjects
MemberRequests == {r \in Users \X Projects : <<r[2], r[1]>> \in Members}

\* every outside event may occur: any handshake, any message, the heartbeat
\* timer, and rejections of the awaited calls
Init ==
  InitWith([requests |-> AllRequests, msgTypes |-> MsgTypes \cup {Malformed},
            msgs |-> MaxBurst, heartbeat |-> TRUE, faulty |-> TRUE,
            foreign |-> TRUE, shutdown |-> TRUE, datas |-> Datas], Procs)

Next ==
  \/ \E c \in Conns, proc \in Procs, t \in Tokens, p \in ReqProjects :
       Connection(c, proc, t, p)
  \/ \E c \in Conns, ok \in BOOLEAN : RoleResolved(c, ok)
  \/ \E c \in Conns, ok \in BOOLEAN : SessionCreated(c, ok)
  \/ \E c \in Conns, ok \in BOOLEAN : JoinPublished(c, ok)
  \/ \E c \in Conns : SocketClose(c)
  \/ \E c \in Conns, ok \in BOOLEAN : DisconnectUpdated(c, ok)
  \/ \E c \in Conns, ok \in BOOLEAN : DisconnectPublished(c, ok)
  \/ \E c \in Conns, ty \in MsgTypes \cup {Malformed} : Message(c, ty)
  \/ \E m \in 1..MaxBurst, ok \in BOOLEAN : MsgTouched(m, ok)
  \/ \E m \in 1..MaxBurst, ok \in BOOLEAN : MsgLogged(m, ok)
  \/ \E m \in 1..MaxBurst, ok \in BOOLEAN : MsgPublished(m, ok)
  \/ \E proc \in Procs : BusDeliver(proc)
  \/ \E proc \in Procs : Heartbeat(proc)
  \/ \E c \in Conns : Pong(c)
  \/ \E p \in Projects, text \in ForeignTexts : BusInject(p, text)
  \/ \E proc \in Procs, legacy \in BOOLEAN : Shutdown(proc, legacy)
  \/ \E proc \in Procs : WssClosed(proc)
  \/ \E proc \in Procs : PgClosed(proc)
  \/ \E proc \in Procs : RedisClosed(proc)

Spec == Init /\ [][Next]_vars

\* The handshake gate on one process: every kind of handshake, rejections of
\* the awaited calls, sockets closing at any moment; no messages, no sweeps
InitGate ==
  InitWith([requests |-> AllRequests, msgTypes |-> {}, msgs |-> MaxMsgs,
            heartbeat |-> FALSE, faulty |-> TRUE, foreign |-> FALSE,
            shutdown |-> FALSE,
            datas |-> {NoData}], {"A"})

NextGate ==
  \/ \E c \in Conns, proc \in Procs, t \in Tokens, p \in ReqProjects :
       Connection(c, proc, t, p)
  \/ \E c \in Conns, ok \in BOOLEAN : RoleResolved(c, ok)
  \/ \E c \in Conns, ok \in BOOLEAN : SessionCreated(c, ok)
  \/ \E c \in Conns, ok \in BOOLEAN : JoinPublished(c, ok)
  \/ \E c \in Conns : SocketClose(c)
  \/ \E c \in Conns, ok \in BOOLEAN : DisconnectUpdated(c, ok)
  \/ \E c \in Conns, ok \in BOOLEAN : DisconnectPublished(c, ok)
  \/ \E proc \in Procs : BusDeliver(proc)

SpecGate == InitGate /\ [][NextGate]_vars

\* Fanout across two processes: members connect to either process (the two
\* run the same code: the first socket is taken to arrive at A) and send
\* messages of the three client kinds; sockets close at any moment
InitFanout ==
  InitWith([requests |-> MemberRequests,
            msgTypes |-> {FILE_CHANGED, CURSOR_MOVED, ACTIVITY_UPDATE},
            msgs |-> MaxMsgs, heartbeat |-> FALSE, faulty |-> FALSE,
            foreign |-> FALSE, shutdown |-> FALSE,
            datas |-> {NoData}], Procs)

NextFanout ==
  \/ \E c \in Conns, proc \in Procs, t \in Tokens, p \in ReqProjects :
       (c = 1 => proc = "A") /\ Connection(c, proc, t, p)
  \/ \E c \in Conns : RoleResolved(c, TRUE)
  \/ \E c \in Conns : SessionCreated(c, TRUE)
  \/ \E c \in Conns : JoinPublished(c, TRUE)
  \/ \E c \in Conns : SocketClose(c)
  \/ \E c \in Conns : DisconnectUpdated(c, TRUE)
  \/ \E c \in Conns : DisconnectPublished(c, TRUE)
  \/ \E c \in Conns, ty \in MsgTypes : Message(c, ty)
  \/ \E m \in 1..MaxMsgs : MsgTouched(m, TRUE)
  \/ \E m \in 1..MaxMsgs : MsgLogged(m, TRUE)
  \/ \E m \in 1..MaxMsgs : MsgPublished(m, TRUE)
  \/ \E proc \in Procs : BusDeliver(proc)

SpecFanout == InitFanout /\ [][NextFanout]_vars

\* The heartbeat on one process: members connect, answer pings or not, the
\* timer sweeps, sockets close at any moment; no messages, no rejections
InitBeat ==
  InitWith([requests |-> MemberRequests, msgTypes |-> {}, msgs |-> MaxMsgs,
            heartbeat |-> TRUE, faulty |-> FALSE, foreign |-> FALSE,
            shutdown |-> FALSE,
            datas |-> {NoData}], {"A"})

NextBeat ==
  \/ \E c \in Conns, proc \in Procs, t \in Tokens, p \in ReqProjects :
       Connection(c, proc, t, p)
  \/ \E c \in Conns : RoleResolved(c, TRUE)
  \/ \E c \in Conns : SessionCreated(c, TRUE)
  \/ \E c \in Conns : JoinPublished(c, TRUE)
  \/ \E c \in Conns : SocketClose(c)
  \/ \E c \in Conns : DisconnectUpdated(c, TRUE)
  \/ \E c \in Conns : DisconnectPublished(c, TRUE)
  \/ \E proc \in Procs : BusDeliver(proc)
  \/ \E proc \in Procs : Heartbeat(proc)
  \/ \E c \in Conns : Pong(c)

SpecBeat == InitBeat /\ [][NextBeat]_vars

\* Failing collaborators on one process: members connect and send messages,
\* any awaited call may reject, sockets close at any moment; no sweeps
InitFaults ==
  InitWith([requests |-> MemberRequests,
            msgTypes |-> {FILE_CHANGED, USER_JOINED, "bogus", NoType, Malformed},
            msgs |-> MaxMsgs, heartbeat |-> FALSE, faulty |-> TRUE,
            foreign |-> FALSE, shutdown |-> FALSE,
            datas |-> {NoData}], {"A"})

NextFaults ==
  \/ \E c \in Conns, proc \in Procs, t \in Tokens, p \in ReqProjects :
       Connection(c, proc, t, p)
  \/ \E c \in Conns, ok \in BOOLEAN : RoleResolved(c, ok)
  \/ \E c \in Conns, ok \in BOOLEAN : SessionCreated(c, ok)
  \/ \E c \in Conns, ok \in BOOLEAN : JoinPublished(c, ok)
  \/ \E c \in Conns : SocketClose(c)
  \/ \E c \in Conns, ok \in BOOLEAN : DisconnectUpdated(c, ok)
  \/ \E c \in Conns, ok \in BOOLEAN : DisconnectPublished(c, ok)
  \/ \E c \in Conns, ty \in MsgTypes \cup {Malformed} : Message(c, ty)
  \/ \E m \in 1..MaxMsgs, ok \in BOOLEAN : MsgTouched(m, ok)
  \/ \E m \in 1..MaxMsgs, ok \in BOOLEAN : MsgLogged(m, ok)
  \/ \E m \in 1..MaxMsgs, ok \in BOOLEAN : MsgPublished(m, ok)
  \/ \E proc \in Procs : BusDeliver(proc)

SpecFaults == InitFaults /\ [][NextFaults]_vars

\* A burst of messages on one process: members connect and send up to
\* MaxBurst file_changed messages; the awaited calls settle in any order
InitOrder ==
  InitWith([requests |-> MemberRequests, msgTypes |-> {FILE_CHANGED},
            msgs |-> MaxBurst, heartbeat |-> FALSE, faulty |-> FALSE,
            foreign |-> FALSE, shutdown |-> FALSE,
            datas |-> {NoData}], {"A"})

NextOrder ==
  \/ \E c \in Conns, proc \in Procs, t \in Tokens, p \in ReqProjects :
       Connection(c, proc, t, p)
  \/ \E c \in Conns : RoleResolved(c, TRUE)
  \/ \E c \in Conns : SessionCreated(c, TRUE)
  \/ \E c \in Conns : JoinPublished(c, TRUE)
  \/ \E c \in Conns : SocketClose(c)
  \/ \E c \in Conns : DisconnectUpdated(c, TRUE)
  \/ \E c \in Conns : DisconnectPublished(c, TRUE)
  \/ \E c \in Conns, ty \in MsgTypes : Message(c, ty)
  \/ \E m \in 1..MaxBurst : MsgTouched(m, TRUE)
  \/ \E m \in 1..MaxBurst : MsgLogged(m, TRUE)
  \/ \E m \in 1..MaxBurst : MsgPublished(m, TRUE)
  \/ \E proc \in Procs : BusDeliver(proc)

SpecOrder == InitOrder /\ [][NextOrder]_vars

\* Forged fields: members connect to one process and send file_changed
\* messages that may carry a userId and a projectId of the client's choosing
InitSpoof ==
  InitWith([requests |-> MemberRequests, msgTypes |-> {FILE_CHANGED},
            msgs |-> MaxMsgs, heartbeat |-> FALSE, faulty |-> FALSE,
            foreign |-> FALSE, shutdown |-> FALSE, datas |-> Datas], {"A"})

NextSpoof ==
  \/ \E c \in Conns, proc \in Procs, t \in Tokens, p \in ReqProjects :
       Connection(c, proc, t, p)
  \/ \E c \in Conns : RoleResolved(c, TRUE)
  \/ \E c \in Conns : SessionCreated(c, TRUE)
  \/ \E c \in Conns : JoinPublished(c, TRUE)
  \/ \E c \in Conns : SocketClose(c)
  \/ \E c \in Conns : DisconnectUpdated(c, TRUE)
  \/ \E c \in Conns : DisconnectPublished(c, TRUE)
  \/ \E c \in Conns, ty \in MsgTypes : Message(c, ty)
  \/ \E m \in 1..MaxMsgs : MsgTouched(m, TRUE)
  \/ \E m \in 1..MaxMsgs : MsgLogged(m, TRUE)
  \/ \E m \in 1..MaxMsgs : MsgPublished(m, TRUE)
  \/ \E proc \in Procs : BusDeliver(proc)

SpecSpoof == InitSpoof /\ [][NextSpoof]_vars

\* Another publisher on the bus: members connect to one process while a
\* foreign client of the Redis publishes on the collaboration channels
InitBus ==
  InitWith([requests |-> MemberRequests, msgTypes |-> {}, msgs |-> MaxMsgs,
            heartbeat |-> FALSE, faulty |-> FALSE, foreign |-> TRUE,
            shutdown |-> FALSE,
            datas |-> {NoData}], {"A"})

NextBus ==
  \/ \E c \in Conns, proc \in Procs, t \in Tokens, p \in ReqProjects :
       Connection(c, proc, t, p)
  \/ \E c \in Conns : RoleResolved(c, TRUE)
  \/ \E c \in Conns : SessionCreated(c, TRUE)
  \/ \E c \in Conns : JoinPublished(c, TRUE)
  \/ \E c \in Conns : SocketClose(c)
  \/ \E c \in Conns : DisconnectUpdated(c, TRUE)
  \/ \E c \in Conns : DisconnectPublished(c, TRUE)
  \/ \E p \in Projects, text \in ForeignTexts : BusInject(p, text)
  \/ \E proc \in Procs : BusDeliver(proc)

SpecBus == InitBus /\ [][NextBus]_vars

\* Shutdown of one process: members connect, the heartbeat sweeps, and a
\* termination signal arrives at any moment
InitShutdown ==
  InitWith([requests |-> MemberRequests, msgTypes |-> {}, msgs |-> MaxMsgs,
            heartbeat |-> TRUE, faulty |-> FALSE, foreign |-> FALSE,
            shutdown |-> TRUE,
            datas |-> {NoData}], {"A"})

NextShutdown ==
  \/ \E c \in Conns, proc \in Procs, t \in Tokens, p \in ReqProjects :
       Connection(c, proc, t, p)
  \/ \E c \in Conns : RoleResolved(c, TRUE)
  \/ \E c \in Conns : SessionCreated(c, TRUE)
  \/ \E c \in Conns : JoinPublished(c, TRUE)
  \/ \E c \in Conns : SocketClose(c)
  \/ \E c \in Conns : DisconnectUpdated(c, TRUE)
  \/ \E c \in Conns : DisconnectPublished(c, TRUE)
  \/ \E proc \in Procs : BusDeliver(proc)
  \/ \E proc \in Procs : Heartbeat(proc)
  \/ \E c \in Conns : Pong(c)
  \/ \E proc \in Procs, legacy \in BOOLEAN : Shutdown(proc, legacy)
  \/ \E proc \in Procs : WssClosed(proc)
  \/ \E proc \in Procs : PgClosed(proc)
  \/ \E proc \in Procs : RedisClosed(proc)

SpecShutdown == InitShutdown /\ [][NextShutdown]_vars

\* ================================================================ claims
ClientKinds == {FILE_CHANGED, CURSOR_MOVED, ACTIVITY_UPDATE}

InAnyRoom(c) == \E proc \in Procs : \E p \in DOMAIN clients[proc] : c \in clients[proc][p]
Registered(c) == c \in Room(clients[host[c]], projectId[c])
SessionsOf(sid) == {i \in DOMAIN sessions : sessions[i].sessionId = sid}
Authorized(t, p) ==
  /\ t \in Users
  /\ <<p, t>> \in Members

\* a connection is ACTIVE from its set-up (lines 64-74) until its socket has
\* closed, unless its activation failed
Active(c) ==
  /\ pc[c] \in {"create", "publish", "ready"}
  /\ rs[c] \in {"OPEN", "CLOSING"}

\* C1: on every running process and for every project, the Room holds exactly
\* the connections of the process that are ACTIVE for the project: none whose
\* socket has closed or whose activation failed.
C1_RoomIsActiveSet ==
  \A proc \in up : \A p \in Projects :
    Room(clients[proc], p) =
      {c \in Conns : host[c] = proc /\ projectId[c] = p /\ Active(c)}

\* C2 as claimed: every connection registered in the Registry whose socket has
\* not closed has exactly one Session record with its sessionId, and that
\* record is active.
C2_RegisteredHasSession ==
  \A c \in Conns :
    (Registered(c) /\ rs[c] # "CLOSED") =>
      /\ Cardinality(SessionsOf(sessionId[c])) = 1
      /\ \A i \in SessionsOf(sessionId[c]) : sessions[i].isActive

\* C2 as amended: from the moment Session.create has resolved until the socket
\* closes, there is exactly one Session record with the connection's
\* sessionId and it is active; no record of a socket that has not closed is
\* duplicated or inactive.
C2_SessionFromCreateToClose ==
  /\ \A c \in Conns :
       (pc[c] \in {"publish", "ready"} /\ rs[c] # "CLOSED") =>
         /\ Cardinality(SessionsOf(sessionId[c])) = 1
         /\ \A i \in SessionsOf(sessionId[c]) : sessions[i].isActive
  /\ \A i \in DOMAIN sessions :
       rs[sessions[i].sessionId] # "CLOSED" =>
         /\ sessions[i].isActive
         /\ SessionsOf(sessions[i].sessionId) = {i}

\* a connection is open and active while another connection has closed and had
\* its own Session record deactivated, and a message has touched a record
C2_Witness ==
  \E c \in Conns, d \in Conns :
    /\ c # d
    /\ pc[c] = "ready" /\ rs[c] = "OPEN"
    /\ \E i \in SessionsOf(sessionId[c]) : sessions[i].isActive
    /\ dpc[d] = "done"
    /\ \E i \in SessionsOf(sessionId[d]) : ~sessions[i].isActive
    /\ \E i \in DOMAIN sessions : sessions[i].lastActivity > 0

\* C3: every client message of an enumerated client kind whose handler has
\* finished was published exactly once, every synthetic user_joined/user_left
\* whose step has finished was published exactly once, and nothing is on the
\* bus more than once.
C3_OnePublishPerLocalEvent ==
  /\ \A m \in DOMAIN tasks :
       (tasks[m].type \in ClientKinds /\ tasks[m].st \in {"done", "failed"}) =>
         CopiesIn(TaskEvent(m), published) = 1
  /\ \A c \in Conns :
       /\ pc[c] = "ready" => CopiesIn(JoinEvent(c), published) = 1
       /\ dpc[c] = "done" => CopiesIn(LeftEvent(c), published) = 1
  /\ \A e \in BagToSet(published) : CopiesIn(e, published) = 1

\* C4: no socket is ever sent a file_changed, cursor_moved or activity_update
\* event whose userId is the socket's own userId.
C4_NoSelfEcho ==
  \A c \in Conns : \A m \in outbox[c] :
    (CanParse(m) /\ Parse(m).type \in ClientKinds) => Parse(m).userId # userId[c]

\* a message of user U has been published and handled by both processes while
\* a second open connection of U to the same project sits on the other process
C4_Witness ==
  \E m \in DOMAIN tasks : \E d \in Conns :
    /\ tasks[m].st = "done"
    /\ d # tasks[m].conn
    /\ userId[d] = userId[tasks[m].conn]
    /\ projectId[d] = projectId[tasks[m].conn]
    /\ host[d] # host[tasks[m].conn]
    /\ pc[d] = "ready" /\ rs[d] = "OPEN"
    /\ Stringify(JoinEvent(tasks[m].conn)) \in outbox[d]
    /\ \A proc \in Procs : inbox[proc] = << >>

\* C5: in the step that completes a connection's activation, the user_joined
\* event of the connection is sent to the connection itself and to every
\* other socket of the project's Room on that process that is open.
C5_JoinedToAll ==
  [][\A c \in Conns :
       (pc[c] = "publish" /\ pc'[c] = "ready") =>
         /\ Registered(c)
         /\ \A d \in Room(clients[host[c]], projectId[c]) :
              rs[d] = "OPEN" => Stringify(JoinEvent(c)) \in outbox'[d]]_vars

C5_Witness ==
  \E c \in Conns, d \in Conns :
    /\ c # d
    /\ host[c] = host[d]
    /\ pc[c] = "ready" /\ pc[d] = "ready"
    /\ Stringify(JoinEvent(c)) \in outbox[c]
    /\ Stringify(JoinEvent(c)) \in outbox[d]
    /\ Stringify(JoinEvent(d)) \notin outbox[c]

\* C6: the event of a client message is never sent to the socket that sent
\* the message, and when a process handles the bus message of a client-kind
\* event, every open socket in the event's project Room on that process whose
\* user is not the originating user is sent the event.
C6_CrossProcessFanout ==
  /\ [](\A m \in DOMAIN tasks :
          tasks[m].type \in ClientKinds =>
            Stringify(TaskEvent(m)) \notin outbox[tasks[m].conn])
  /\ [][\A proc \in Procs :
          (proc \in up' /\ inbox[proc] # << >> /\ inbox'[proc] = Tail(inbox[proc])) =>
            LET text == Head(inbox[proc]).message
            IN (CanParse(text) /\ Parse(text).type \in ClientKinds) =>
                 \A d \in Conns :
                   ( /\ host[d] = proc
                     /\ Registered(d)
                     /\ projectId[d] = Parse(text).projectId
                     /\ rs[d] = "OPEN"
                     /\ userId[d] # Parse(text).userId ) => text \in outbox'[d]]_vars

\* X on A sent a file_changed; Y on B, same project, has it; X's socket has not
C6_Witness ==
  \E m \in DOMAIN tasks : \E d \in Conns :
    /\ tasks[m].type = FILE_CHANGED
    /\ host[tasks[m].conn] = "A" /\ host[d] = "B"
    /\ userId[d] # userId[tasks[m].conn]
    /\ projectId[d] = projectId[tasks[m].conn]
    /\ Stringify(TaskEvent(m)) \in outbox[d]
    /\ Stringify(TaskEvent(m)) \notin outbox[tasks[m].conn]
    /\ rs[tasks[m].conn] = "OPEN"
    /\ inbox["A"] = << >>

\* C7: a socket the heartbeat terminated, once it has closed and its close
\* handling is over, is in no Room and has no active Session record.
C7_Reclaimed ==
  \A c \in Conns :
    (terminated[c] /\ rs[c] = "CLOSED" /\ dpc[c] \notin {"update", "publish"}) =>
      /\ ~InAnyRoom(c)
      /\ \A i \in SessionsOf(c) : ~sessions[i].isActive

\* C8: at most one user_left event is ever published for a connection, however
\* the heartbeat's terminate() and the socket's own close interleave, and
\* removing a connection from the map a second time changes nothing, also
\* when its Room is gone.
C8_CloseOnce ==
  /\ \A c \in Conns : sessionId[c] # 0 => CopiesIn(LeftEvent(c), published) <= 1
  /\ \A proc \in Procs : \A p \in Projects : \A c \in Conns :
       LET once == RemoveClient(clients[proc], p, c)
       IN RemoveClient(once, p, c) = once

\* the heartbeat terminated a socket, its close was handled, one user_left is
\* out and the Room has been pruned
C8_Witness ==
  \E c \in Conns :
    /\ terminated[c]
    /\ rs[c] = "CLOSED"
    /\ dpc[c] = "done"
    /\ CopiesIn(LeftEvent(c), published) = 1
    /\ projectId[c] \notin DOMAIN clients[host[c]]

\* C9: a handshake without token or projectId is closed with code 1008 in the
\* step that receives it, and that step changes neither the map, the Session
\* collection, the ActivityLog, the bus nor any socket's output; the socket
\* is never set up or registered afterwards.
C9_MissingParamsNoEffect ==
  /\ [](\A c \in Conns :
          (pc[c] # "idle" /\ (token[c] = NoParam \/ reqProject[c] = NoParam)) =>
            /\ closeCode[c] = PolicyViolation
            /\ pc[c] = "done"
            /\ sessionId[c] = 0
            /\ ~handlers[c]
            /\ ~InAnyRoom(c))
  /\ [][\A c \in Conns :
          ( /\ pc[c] = "idle" /\ pc'[c] # "idle"
            /\ (token'[c] = NoParam \/ reqProject'[c] = NoParam) ) =>
            /\ rs'[c] = "CLOSING"
            /\ UNCHANGED <<clients, sessions, activityLog, inbox, published, outbox>>]_vars

\* a handshake without a parameter was refused while another socket is set up
C9_Witness ==
  \E c \in Conns, d \in Conns :
    /\ pc[c] = "done"
    /\ reqProject[c] = NoParam /\ token[c] \in Users
    /\ closeCode[c] = PolicyViolation
    /\ InAnyRoom(d)
    /\ sessions # << >>

\* C10: a socket is in the map, has a Session record or a published
\* user_joined only if its token verified and its user has a role in the
\* requested project, and after both checks; the step that refuses a bad
\* token or a user without role closes the socket and changes neither the
\* map, the Session collection, the ActivityLog, the bus nor any output.
C10_AuthGate ==
  /\ [](\A c \in Conns :
          ( \/ InAnyRoom(c)
            \/ SessionsOf(c) # {}
            \/ \E e \in BagToSet(published) :
                 e.type = USER_JOINED /\ e.payload = <<"sessionId", c>> ) =>
            /\ pc[c] \notin {"idle", "role"}
            /\ Authorized(token[c], reqProject[c]))
  /\ [][\A c \in Conns :
          ( /\ pc[c] \in {"idle", "role"} /\ pc'[c] \notin {"idle", "role"}
            /\ host'[c] \in up'
            /\ token'[c] # NoParam /\ reqProject'[c] # NoParam
            /\ ~Authorized(token'[c], reqProject'[c]) ) =>
            /\ pc'[c] = "done"
            /\ rs'[c] \in {"CLOSING", "CLOSED"}
            /\ UNCHANGED <<clients, sessions, activityLog, inbox, published, outbox>>]_vars

\* a valid token of a user without role was refused while another socket is
\* set up and active
C10_Witness ==
  \E c \in Conns, d \in Conns :
    /\ pc[c] = "done"
    /\ token[c] \in Users
    /\ closeReason[c] = "Access denied"
    /\ rs[c] = "CLOSED"
    /\ pc[d] = "ready"
    /\ InAnyRoom(d)

\* C11: a connection whose close is being handled is in no Room, and whatever
\* the outcome of the Session update of the cleanup, the cleanup goes on to
\* emit the user_left event.
C11_CleanupSurvivesFailure ==
  /\ [](\A c \in Conns : dpc[c] # "none" => ~InAnyRoom(c))
  /\ [][\A c \in Conns :
          (dpc[c] = "update" /\ dpc'[c] # "update") => dpc'[c] = "publish"]_vars

\* C12: when the ActivityLog append of a client message of an enumerated kind
\* settles, resolved or rejected, the handler goes on to publish the event, and
\* the sender gets no error and is not closed.
C12_LogFailureDoesNotBlock ==
  [][\A m \in DOMAIN tasks :
       ( /\ tasks[m].st = "log"
         /\ tasks[m].type \in ClientKinds
         /\ tasks'[m].st # "log"
         /\ host[tasks[m].conn] \in up' ) =>
         /\ tasks'[m].st = "publish"
         /\ outbox' = outbox
         /\ rs' = rs]_vars

\* C13: when the Session touch, the Session create, the Session deactivation
\* or the bus publish of a locally originated event settles, resolved or
\* rejected, the handler goes on towards the local fanout: it is not abandoned.
C13_WritesDoNotBlockFanout ==
  [][/\ \A m \in DOMAIN tasks :
          ( /\ tasks[m].st \in {"touch", "publish"}
            /\ tasks'[m].st # tasks[m].st
            /\ host[tasks[m].conn] \in up' ) => tasks'[m].st \in {"log", "done"}
     /\ \A c \in Conns :
          ( /\ pc[c] \in {"create", "publish"}
            /\ pc'[c] # pc[c]
            /\ host[c] \in up' ) => pc'[c] \in {"publish", "ready"}
     /\ \A c \in Conns :
          (dpc[c] \in {"update", "publish"} /\ dpc'[c] # dpc[c]) =>
            dpc'[c] \in {"publish", "done"}]_vars

\* C14: of two messages received on the same connection, the later one is
\* never published and fanned out while the earlier one is not.
C14_ReceiptOrder ==
  \A m1 \in DOMAIN tasks, m2 \in DOMAIN tasks :
    ( /\ m1 < m2
      /\ tasks[m1].conn = tasks[m2].conn
      /\ tasks[m2].st = "done" ) => tasks[m1].st = "done"

\* C15: a message that is not JSON or has no type never reaches the
\* ActivityLog, the bus or any socket as an event; the step that rejects it
\* sends the error reply to the sending socket only and leaves every socket's
\* state and the map as they are.
C15_MalformedErrorOnly ==
  /\ [](\A m \in DOMAIN tasks :
          tasks[m].type \in {Malformed, NoType} =>
            /\ tasks[m].st \in {"touch", "log", "failed", "dead"}
            /\ \A i \in DOMAIN activityLog : activityLog[i] # TaskEvent(m)
            /\ CopiesIn(TaskEvent(m), published) = 0
            /\ \A d \in Conns : Stringify(TaskEvent(m)) \notin outbox[d]
            /\ \A q \in Procs : \A i \in DOMAIN inbox[q] :
                 inbox[q][i].message # Stringify(TaskEvent(m)))
  /\ [][\A m \in DOMAIN tasks' :
          ( /\ tasks'[m].type \in {Malformed, NoType}
            /\ tasks'[m].st = "failed"
            /\ (m \in DOMAIN tasks => tasks[m].st # "failed") ) =>
            /\ outbox' = Send(outbox, tasks'[m].conn, ErrorReply)
            /\ UNCHANGED <<rs, clients, activityLog, published, inbox>>]_vars

\* a message without type was refused by the ActivityLog schema after its
\* Session touch; the sender has the error reply, is open and registered, and
\* another open member of the Room has nothing of it
C15_Witness ==
  \E m \in DOMAIN tasks : \E d \in Conns :
    /\ tasks[m].type = NoType
    /\ tasks[m].st = "failed"
    /\ faults = 0
    /\ ErrorReply \in outbox[tasks[m].conn]
    /\ rs[tasks[m].conn] = "OPEN"
    /\ Registered(tasks[m].conn)
    /\ d # tasks[m].conn
    /\ projectId[d] = projectId[tasks[m].conn]
    /\ userId[d] # userId[tasks[m].conn]
    /\ pc[d] = "ready" /\ rs[d] = "OPEN"
    /\ ErrorReply \notin outbox[d]
    /\ \E i \in DOMAIN sessions : sessions[i].lastActivity > 0

\* C16: when a process exits at the end of its shutdown, every socket it
\* still holds has been closed by the server with a close code and its map
\* is empty.
C16_ShutdownClosesAll ==
  [][\A proc \in Procs :
       (life[proc].phase = "redis" /\ life'[proc].phase = "exited") =>
         /\ \A c \in WssClients(proc) : closeCode[c] # 0
         /\ clients[proc] = EmptyMap]_vars

\* C17: no Session record is active once the socket of its connection has
\* closed and no deactivation of it is pending.
C17_NoActiveSessionOfClosed ==
  \A i \in DOMAIN sessions :
    (rs[sessions[i].sessionId] = "CLOSED" /\ dpc[sessions[i].sessionId] # "update") =>
      ~sessions[i].isActive

\* C18: a socket refused for a missing parameter and a socket refused for
\* lack of a role are never closed with the same code.
C18_DistinctCloseCodes ==
  \A c \in Conns, d \in Conns :
    ( /\ closeReason[c] = "Missing token or projectId"
      /\ closeReason[d] = "Access denied" ) => closeCode[c] # closeCode[d]

\* C19: every event on the bus, user_joined and user_left included, is in
\* the ActivityLog exactly once (the append precedes the publish).
C19_EveryEventLogged ==
  \A e \in BagToSet(published) :
    Cardinality({i \in DOMAIN activityLog : activityLog[i] = e}) = 1

\* C20: when a process handles a bus message that parses, the sockets it
\* sends the message to are open sockets of the Room keyed by the projectId
\* of the body, and every such socket the self-echo rule allows gets it,
\* whatever the channel.
C20_RoomFromBody ==
  [][\A proc \in Procs :
       (proc \in up' /\ inbox[proc] # << >> /\ inbox'[proc] = Tail(inbox[proc])) =>
         LET text == Head(inbox[proc]).message
         IN CanParse(text) =>
              /\ \A d \in Conns :
                   (text \in outbox'[d] /\ text \notin outbox[d]) =>
                     projectId[d] = Parse(text).projectId
              /\ \A d \in Conns :
                   ( /\ host[d] = proc
                     /\ Registered(d)
                     /\ rs[d] = "OPEN"
                     /\ projectId[d] = Parse(text).projectId
                     /\ ShouldSend(d, Parse(text)) ) => text \in outbox'[d]]_vars

\* C21: no process ever stops running, whichever awaited write rejects.
C21_ProcessSurvives ==
  [][up' = up]_vars

\* C22: the event of a client message whose type is not file_changed,
\* cursor_moved or activity_update is never published and never sent to any
\* socket.
C22_ClientKindsOnly ==
  \A m \in DOMAIN tasks :
    tasks[m].type \notin ClientKinds =>
      /\ CopiesIn(TaskEvent(m), published) = 0
      /\ \A d \in Conns : Stringify(TaskEvent(m)) \notin outbox[d]

\* C23: whenever an open socket's peer answers a ping, the socket's isAlive
\* is true afterwards; and the heartbeat terminates a socket only while a
\* ping to it is unanswered.
C23_PongRevives ==
  [][\A c \in Conns :
       /\ (pinged[c] /\ ~pinged'[c] /\ rs'[c] = "OPEN") => isAlive'[c] = "true"
       /\ (~terminated[c] /\ terminated'[c]) => pinged[c]]_vars

\* C24: a socket refused for a token that does not verify and a socket
\* refused for lack of a role are closed with the same code.
C24_InvalidTokenSameCode ==
  \A c \in Conns, d \in Conns :
    ( /\ pc[c] = "done"
      /\ token[c] = "bad" /\ reqProject[c] # NoParam
      /\ closeReason[d] = "Access denied" ) => closeCode[c] = closeCode[d]

\* C25: on every process, every project key of the map holds at least one
\* socket.
C25_NoEmptyRoom ==
  \A proc \in Procs : \A p \in DOMAIN clients[proc] : clients[proc][p] # {}

\* the last socket of a project has closed and the project's key is gone,
\* while the Room of another project still has its socket
C25_Witness ==
  \E c \in Conns, d \in Conns :
    /\ dpc[c] = "done"
    /\ host[c] = host[d]
    /\ projectId[c] \notin DOMAIN clients[host[c]]
    /\ projectId[d] \in DOMAIN clients[host[d]]
    /\ d \in clients[host[d]][projectId[d]]

\* C26: when a process handles a bus message, it sends the message to no
\* socket that has been sent the same message before.
C26_AtMostOnce ==
  [][\A proc \in Procs :
       (proc \in up' /\ inbox[proc] # << >> /\ inbox'[proc] = Tail(inbox[proc])) =>
         LET msg == Head(inbox[proc])
         IN CanParse(msg.message) =>
              \A d \in Conns :
                msg.message \in outbox[d] =>
                  BroadcastToProject([c \in Conns |-> {}], proc,
                                     ChannelProject(msg.channel),
                                     Parse(msg.message))[d] = {}]_vars

\* C27: no message's event is published and fanned out once the user_left
\* event of the connection that sent it has been emitted.
C27_NothingAfterLeft ==
  [][\A m \in DOMAIN tasks :
       (tasks[m].st # "done" /\ tasks'[m].st = "done") =>
         dpc[tasks[m].conn] # "done"]_vars

\* C28: a socket whose activation failed after it was set up and registered
\* is, once closed, in no Room and has no active Session record.
C28_FailedActivationCleaned ==
  \A c \in Conns :
    (pc[c] = "done" /\ sessionId[c] # 0 /\ rs[c] = "CLOSED") =>
      /\ ~InAnyRoom(c)
      /\ \A i \in SessionsOf(sessionId[c]) : ~sessions[i].isActive

EventsSeen ==
  BagToSet(published)
    \cup {activityLog[i] : i \in DOMAIN activityLog}
    \cup {Parse(text) : text \in {t \in UNION {outbox[d] : d \in Conns} : CanParse(t)}}
    \cup UNION {{Parse(inbox[q][i].message) : i \in DOMAIN inbox[q]} : q \in Procs}

\* C30: every event made from a client message carries the userId of the
\* token and the projectId of the handshake of the sending connection,
\* whatever userId and projectId the message itself names.
C30_Attribution ==
  \A m \in DOMAIN tasks : \A e \in EventsSeen :
    e.payload = <<"msg", m>> =>
      /\ e.userId = VerifyAccessToken(token[tasks[m].conn]).userId
      /\ e.projectId = reqProject[tasks[m].conn]

\* a message naming another user and another project has been logged,
\* published and delivered to another member of the sender's project
C30_Witness ==
  \E m \in DOMAIN tasks : \E d \in Conns :
    /\ tasks[m].st = "done"
    /\ tasks[m].data # NoData
    /\ tasks[m].data.userId # userId[tasks[m].conn]
    /\ tasks[m].data.projectId # projectId[tasks[m].conn]
    /\ d # tasks[m].conn
    /\ Stringify(TaskEvent(m)) \in outbox[d]
    /\ TaskEvent(m) \in BagToSet(published)
    /\ \E i \in DOMAIN activityLog : activityLog[i] = TaskEvent(m)

====
